---- MODULE Spec2Model ----
(***************************************************************************)
(* Model of transcribe_consensus.py: the alignment of two token lists      *)
(* (align_two, on difflib.SequenceMatcher.get_opcodes), their column-wise  *)
(* consensus (consensus_two) and the left fold over three transcripts      *)
(* (consensus_three).                                                      *)
(*                                                                         *)
(* Python lists are modelled as TLA+ sequences; Python's 0-based indices   *)
(* and half-open ranges [lo, hi) are kept, so s[i] in the source is        *)
(* s[i + 1] here and s[lo:hi] is Slice(s, lo, hi).                         *)
(***************************************************************************)
EXTENDS Integers, Sequences, FiniteSets

\* The words the enumerated transcripts are made of.
Tokens == {"x", "y", "z"}

\* Longest transcript given to a direct consensus_two call.
MaxLen == 3

\* Longest transcript given to a consensus_three call.
MaxLen3 == 2

\* Python's None, the gap marker of an alignment. It is no word: str.split()
\* (line 99) yields strings only, and None equals no string.
None == "<None>"

SeqsUpTo(n) == UNION {[1..k -> Tokens] : k \in 0..n}

\* s[lo:hi]
Slice(s, lo, hi) == SubSeq(s, lo + 1, hi)

\* [v] * n
Repeat(v, n) == [k \in 1..n |-> v]

Max(m, n) == IF m >= n THEN m ELSE n

Min(m, n) == IF m <= n THEN m ELSE n

(***************************************************************************)
(* difflib.SequenceMatcher(None, a, b): isjunk is None, so bjunk is empty; *)
(* the "popular" purge of b2j applies to len(b) >= 200 only, beyond the    *)
(* lengths explored here, so b2j[elt] lists every index of elt in b in     *)
(* increasing order.                                                       *)
(***************************************************************************)

\* newj2len[j] while the outer loop of find_longest_match is at i: the length
\* of the run of equal elements that ends at a[i], b[j] inside the window.
RECURSIVE J2Len(_, _, _, _, _, _)
J2Len(a, b, alo, blo, i, j) ==
    IF a[i + 1] # b[j + 1] THEN 0
    ELSE 1 + (IF i > alo /\ j > blo THEN J2Len(a, b, alo, blo, i - 1, j - 1) ELSE 0)

\* (i, j) is visited before (i2, j2) by the loops "for i ...: for j in b2j[a[i]]".
Before(p, q) == p[1] < q[1] \/ (p[1] = q[1] /\ p[2] < q[2])

\* First extension loop of find_longest_match: grow the block to the left
\* over equal (non-junk) elements.
RECURSIVE ExtendLeft(_, _, _, _, _)
ExtendLeft(a, b, alo, blo, m) ==
    IF m[1] > alo /\ m[2] > blo /\ a[m[1]] = b[m[2]]
    THEN ExtendLeft(a, b, alo, blo, <<m[1] - 1, m[2] - 1, m[3] + 1>>)
    ELSE m

\* Second extension loop: grow the block to the right.
RECURSIVE ExtendRight(_, _, _, _, _)
ExtendRight(a, b, ahi, bhi, m) ==
    IF m[1] + m[3] < ahi /\ m[2] + m[3] < bhi /\ a[m[1] + m[3] + 1] = b[m[2] + m[3] + 1]
    THEN ExtendRight(a, b, ahi, bhi, <<m[1], m[2], m[3] + 1>>)
    ELSE m

\* find_longest_match(alo, ahi, blo, bhi) -> Match(besti, bestj, bestsize).
\* "if k > bestsize" is strict, so among the longest runs the first one the
\* loops reach is kept.
FindLongestMatch(a, b, alo, ahi, blo, bhi) ==
    LET ends == {p \in (alo..(ahi - 1)) \X (blo..(bhi - 1)) : a[p[1] + 1] = b[p[2] + 1]}
        k(p) == J2Len(a, b, alo, blo, p[1], p[2])
        sizes == {k(p) : p \in ends}
        bestsize == CHOOSE m \in sizes : \A n \in sizes : n <= m
        longest == {p \in ends : k(p) = bestsize}
        best ==
            IF ends = {} THEN <<alo, blo, 0>>
            ELSE LET p == CHOOSE p \in longest : \A q \in longest : q = p \/ Before(p, q)
                 IN <<p[1] - bestsize + 1, p[2] - bestsize + 1, bestsize>>
    IN ExtendRight(a, b, ahi, bhi, ExtendLeft(a, b, alo, blo, best))

\* The blocks the work queue of get_matching_blocks collects from the window
\* (alo, ahi, blo, bhi): the longest match, then those of the windows to its
\* left and to its right. The list is sorted afterwards, so a set suffices.
RECURSIVE QueueBlocks(_, _, _, _, _, _)
QueueBlocks(a, b, alo, ahi, blo, bhi) ==
    LET x == FindLongestMatch(a, b, alo, ahi, blo, bhi)
        i == x[1]
        j == x[2]
        k == x[3]
    IN IF k = 0 THEN {}
       ELSE {x}
            \cup (IF alo < i /\ blo < j THEN QueueBlocks(a, b, alo, i, blo, j) ELSE {})
            \cup (IF i + k < ahi /\ j + k < bhi
                  THEN QueueBlocks(a, b, i + k, ahi, j + k, bhi) ELSE {})

\* Tuple order of (i, j, k) triples, as list.sort() compares them.
TripleLess(x, y) ==
    \/ x[1] < y[1]
    \/ x[1] = y[1] /\ x[2] < y[2]
    \/ x[1] = y[1] /\ x[2] = y[2] /\ x[3] < y[3]

\* matching_blocks.sort()
RECURSIVE Sorted(_)
Sorted(S) ==
    IF S = {} THEN <<>>
    ELSE LET m == CHOOSE m \in S : \A y \in S : y = m \/ TripleLess(m, y)
         IN <<m>> \o Sorted(S \ {m})

\* The loop of get_matching_blocks that merges adjacent blocks: blocks[n..]
\* are still to be read and (i1, j1, k1) is the block being grown.
RECURSIVE NonAdjacent(_, _, _, _, _)
NonAdjacent(blocks, n, i1, j1, k1) ==
    IF n > Len(blocks) THEN (IF k1 # 0 THEN <<<<i1, j1, k1>>>> ELSE <<>>)
    ELSE LET i2 == blocks[n][1]
             j2 == blocks[n][2]
             k2 == blocks[n][3]
         IN IF i1 + k1 = i2 /\ j1 + k1 = j2
            THEN NonAdjacent(blocks, n + 1, i1, j1, k1 + k2)
            ELSE (IF k1 # 0 THEN <<<<i1, j1, k1>>>> ELSE <<>>)
                 \o NonAdjacent(blocks, n + 1, i2, j2, k2)

\* get_matching_blocks(): the merged blocks and the (la, lb, 0) sentinel.
GetMatchingBlocks(a, b) ==
    NonAdjacent(Sorted(QueueBlocks(a, b, 0, Len(a), 0, Len(b))), 1, 0, 0, 0)
        \o <<<<Len(a), Len(b), 0>>>>

\* The loop of get_opcodes over blocks[n..], with i and j the ends of the
\* previous block. An opcode is <<tag, i1, i2, j1, j2>>.
RECURSIVE OpcodesFrom(_, _, _, _)
OpcodesFrom(blocks, n, i, j) ==
    IF n > Len(blocks) THEN <<>>
    ELSE LET ai == blocks[n][1]
             bj == blocks[n][2]
             size == blocks[n][3]
             tag == IF i < ai /\ j < bj THEN "replace"
                    ELSE IF i < ai THEN "delete"
                    ELSE IF j < bj THEN "insert"
                    ELSE ""
         IN (IF tag # "" THEN <<<<tag, i, ai, j, bj>>>> ELSE <<>>)
            \o (IF size # 0 THEN <<<<"equal", ai, ai + size, bj, bj + size>>>> ELSE <<>>)
            \o OpcodesFrom(blocks, n + 1, ai + size, bj + size)

\* sm.get_opcodes()
GetOpcodes(a, b) == OpcodesFrom(GetMatchingBlocks(a, b), 1, 0, 0)


(***************************************************************************)
(* align_two and the column policy of consensus_two.                       *)
(***************************************************************************)

\* AlignOp with the padding of a replace block left out.
AlignOpNoPad(seq1, seq2, op) ==
    IF op[1] = "equal" \/ op[1] = "replace"
    THEN <<Slice(seq1, op[2], op[3]), Slice(seq2, op[4], op[5])>>
    ELSE IF op[1] = "delete" THEN <<Slice(seq1, op[2], op[3]), Repeat(None, op[3] - op[2])>>
    ELSE IF op[1] = "insert" THEN <<Repeat(None, op[5] - op[4]), Slice(seq2, op[4], op[5])>>
    ELSE <<<<>>, <<>>>>

\* AlignOp with the two sides of a delete block exchanged.
AlignOpSwapDelete(seq1, seq2, op) ==
    IF op[1] = "delete" THEN <<Repeat(None, op[3] - op[2]), Slice(seq1, op[2], op[3])>>
    ELSE IF op[1] = "insert" THEN <<Repeat(None, op[5] - op[4]), Slice(seq2, op[4], op[5])>>
    ELSE IF op[1] = "equal" THEN <<Slice(seq1, op[2], op[3]), Slice(seq2, op[4], op[5])>>
    ELSE LET tokens1 == Slice(seq1, op[2], op[3])
             tokens2 == Slice(seq2, op[4], op[5])
             L == Max(Len(tokens1), Len(tokens2))
         IN <<tokens1 \o Repeat(None, L - Len(tokens1)),
              tokens2 \o Repeat(None, L - Len(tokens2))>>

\* AlignOp with a replace block padded to the sum of the two lengths.
AlignOpPadSum(seq1, seq2, op) ==
    IF op[1] = "delete" THEN <<Slice(seq1, op[2], op[3]), Repeat(None, op[3] - op[2])>>
    ELSE IF op[1] = "insert" THEN <<Repeat(None, op[5] - op[4]), Slice(seq2, op[4], op[5])>>
    ELSE IF op[1] = "equal" THEN <<Slice(seq1, op[2], op[3]), Slice(seq2, op[4], op[5])>>
    ELSE LET tokens1 == Slice(seq1, op[2], op[3])
             tokens2 == Slice(seq2, op[4], op[5])
             L == Len(tokens1) + Len(tokens2)
         IN <<tokens1 \o Repeat(None, L - Len(tokens1)),
              tokens2 \o Repeat(None, L - Len(tokens2))>>

\* One iteration of the loop of align_two (lines 18-35): what the opcode
\* appends to aligned1 and to aligned2. The slices are copies, so padding
\* tokens1 and tokens2 leaves seq1 and seq2 alone.
AlignOp(seq1, seq2, op) ==
    LET tag == op[1]
        i1 == op[2]
        i2 == op[3]
        j1 == op[4]
        j2 == op[5]
    IN IF tag = "equal" THEN <<Slice(seq1, i1, i2), Slice(seq2, j1, j2)>>
       ELSE IF tag = "replace" THEN
            LET tokens1 == Slice(seq1, i1, i2)
                tokens2 == Slice(seq2, j1, j2)
                L == Max(Len(tokens1), Len(tokens2))
            IN <<tokens1 \o Repeat(None, L - Len(tokens1)),
                 tokens2 \o Repeat(None, L - Len(tokens2))>>
       ELSE IF tag = "delete" THEN <<Slice(seq1, i1, i2), Repeat(None, i2 - i1)>>
       ELSE IF tag = "insert" THEN <<Repeat(None, j2 - j1), Slice(seq2, j1, j2)>>
       ELSE <<<<>>, <<>>>>

\* The loop of align_two over ops[n..].
RECURSIVE AlignFrom(_, _, _, _)
AlignFrom(seq1, seq2, ops, n) ==
    IF n > Len(ops) THEN <<<<>>, <<>>>>
    ELSE LET here == AlignOp(seq1, seq2, ops[n])
             rest == AlignFrom(seq1, seq2, ops, n + 1)
         IN <<here[1] \o rest[1], here[2] \o rest[2]>>

\* align_two(seq1, seq2) -> (aligned1, aligned2)
AlignTwo(s1, s2) == AlignFrom(s1, s2, GetOpcodes(s1, s2), 1)

\* Branch with the equality test inverted.
BranchInverted(t1, t2) ==
    IF t1 = None /\ t2 = None THEN "both_gaps"
    ELSE IF t1 = None THEN "gap1"
    ELSE IF t2 = None THEN "gap2"
    ELSE IF t1 # t2 THEN "equal"
    ELSE "mismatch"

\* The branch of the if/elif chain of consensus_two (lines 47-57) that the
\* column (t1, t2) takes.
Branch(t1, t2) ==
    IF t1 = None /\ t2 = None THEN "both_gaps"
    ELSE IF t1 = None THEN "gap1"
    ELSE IF t2 = None THEN "gap2"
    ELSE IF t1 = t2 THEN "equal"
    ELSE "mismatch"

\* Emit taking the token of seq2 on a mismatch.
EmitRight(t1, t2) ==
    IF t1 = None /\ t2 = None THEN <<>>
    ELSE IF t1 = None THEN <<t2>>
    ELSE IF t2 = None THEN <<t1>>
    ELSE <<t2>>

\* Emit skipping a column whose seq1 side is a gap.
EmitDropInsert(t1, t2) == IF t1 = None THEN <<>> ELSE <<t1>>

\* Emit skipping a column whose seq2 side is a gap.
EmitDropDelete(t1, t2) ==
    IF t2 = None THEN <<>> ELSE IF t1 = None THEN <<t2>> ELSE <<t1>>

\* Emit appending t1 where it should append t2.
EmitGap(t1, t2) == IF t1 = None /\ t2 = None THEN <<>> ELSE <<t1>>

\* What the column appends to consensus.
Emit(t1, t2) ==
    IF Branch(t1, t2) = "both_gaps" THEN <<>>
    ELSE IF Branch(t1, t2) = "gap1" THEN <<t2>>
    ELSE <<t1>>

\* Diagnostic counting the columns from one.
DiagnosticOneBased(idx0, t1, t2) ==
    IF t1 # None /\ t2 # None /\ t1 # t2
    THEN <<<<"mismatch", idx0 + 1, t1, t2, t1>>>> ELSE <<>>

\* What the column prints (line 56): the column index, both tokens and the
\* chosen one.
Diagnostic(idx0, t1, t2) ==
    IF Branch(t1, t2) = "mismatch" THEN <<<<"mismatch", idx0, t1, t2, t1>>>> ELSE <<>>

\* The loop of consensus_two over the columns n.. of an alignment.
RECURSIVE ConsensusFrom(_, _, _)
ConsensusFrom(al1, al2, n) ==
    IF n > Min(Len(al1), Len(al2)) THEN <<>>
    ELSE Emit(al1[n], al2[n]) \o ConsensusFrom(al1, al2, n + 1)

\* consensus_two(s1, s2), as a function of its arguments.
ConsensusTwo(s1, s2) ==
    LET aligned == AlignTwo(s1, s2)
    IN ConsensusFrom(aligned[1], aligned[2], 1)

(***************************************************************************)
(* The program state.                                                      *)
(***************************************************************************)
VARIABLES
    entry,      \* the function the caller invoked
    seq1,       \* its arguments
    seq2,
    seq3,
    pc,         \* "call": not entered; "loop": in the loop of consensus_two; "done"
    call,       \* which consensus_two call is running (0: none yet)
    arg1,       \* seq1 and seq2 of the running consensus_two call
    arg2,
    aligned1,   \* its locals
    aligned2,
    idx,
    consensus,
    cols,       \* history: the column each token of consensus was appended for
    branch,     \* history: the branch the last column took
    stdout,     \* everything printed so far
    base,       \* history: len(stdout) when the running consensus_two call began
    cons12,     \* local of consensus_three
    result      \* the value returned to the caller

vars == <<entry, seq1, seq2, seq3, pc, call, arg1, arg2, aligned1, aligned2, idx,
          consensus, cols, branch, stdout, base, cons12, result>>

\* The end-to-end scenario of the documentation.
Scenario == <<<<"the", "cat", "sat">>, <<"the", "cat", "sit">>, <<"a", "cat", "sat">>>>

Init ==
    /\ \/ /\ entry = "consensus_two"
          /\ seq1 \in SeqsUpTo(MaxLen)
          /\ seq2 \in SeqsUpTo(MaxLen)
          /\ seq3 = <<>>
       \/ /\ entry = "consensus_three"
          /\ seq1 \in SeqsUpTo(MaxLen3)
          /\ seq2 \in SeqsUpTo(MaxLen3)
          /\ seq3 \in SeqsUpTo(MaxLen3)
       \/ /\ entry = "consensus_three"
          /\ seq1 = Scenario[1]
          /\ seq2 = Scenario[2]
          /\ seq3 = Scenario[3]
    /\ pc = "call"
    /\ call = 0
    /\ arg1 = <<>>
    /\ arg2 = <<>>
    /\ aligned1 = <<>>
    /\ aligned2 = <<>>
    /\ idx = 0
    /\ consensus = <<>>
    /\ cols = <<>>
    /\ branch = ""
    /\ stdout = <<>>
    /\ base = 0
    /\ cons12 = <<>>
    /\ result = <<>>

\* Lines 44-45: consensus_two(s1, s2) is entered, having printed `printed`.
Enter(s1, s2, printed) ==
    /\ arg1' = s1
    /\ arg2' = s2
    /\ LET aligned == AlignTwo(s1, s2)
       IN /\ aligned1' = aligned[1]
          /\ aligned2' = aligned[2]
    /\ idx' = 0
    /\ consensus' = <<>>
    /\ cols' = <<>>
    /\ branch' = ""
    /\ stdout' = printed
    /\ base' = Len(printed)
    /\ call' = call + 1
    /\ pc' = "loop"

\* The caller invokes consensus_two(seq1, seq2).
ConsensusTwoCall ==
    /\ pc = "call"
    /\ entry = "consensus_two"
    /\ Enter(seq1, seq2, stdout)
    /\ UNCHANGED <<entry, seq1, seq2, seq3, cons12, result>>

\* The caller invokes consensus_three(seq1, seq2, seq3): lines 65-66.
ConsensusThreeCall ==
    /\ pc = "call"
    /\ entry = "consensus_three"
    /\ Enter(seq1, seq2, Append(stdout, <<"Merging first two transcripts...">>))
    /\ UNCHANGED <<entry, seq1, seq2, seq3, cons12, result>>

\* zip(aligned1, aligned2) stops with the shorter list.
Columns == Min(Len(aligned1), Len(aligned2))

\* One iteration of the loop of consensus_two (lines 46-57).
Column ==
    /\ pc = "loop"
    /\ idx < Columns
    /\ LET t1 == aligned1[idx + 1]
           t2 == aligned2[idx + 1]
       IN /\ consensus' = consensus \o Emit(t1, t2)
          /\ cols' = cols \o [k \in 1..Len(Emit(t1, t2)) |-> idx]
          /\ stdout' = stdout \o Diagnostic(idx, t1, t2)
          /\ branch' = Branch(t1, t2)
    /\ idx' = idx + 1
    /\ UNCHANGED <<entry, seq1, seq2, seq3, pc, call, arg1, arg2, aligned1, aligned2,
                   base, cons12>>
    /\ UNCHANGED result

\* MergeThird with the arguments of the second merge exchanged.
MergeThirdSwapped ==
    /\ pc = "loop"
    /\ idx = Columns
    /\ entry = "consensus_three"
    /\ call = 1
    /\ cons12' = consensus
    /\ Enter(seq3, consensus,
             Append(stdout, <<"Merging consensus of first two with the third transcript...">>))
    /\ UNCHANGED <<entry, seq1, seq2, seq3, result>>

\* Lines 58 and 66-68: the first merge returns to consensus_three, which
\* merges its result with the third transcript.
MergeThird ==
    /\ pc = "loop"
    /\ idx = Columns
    /\ entry = "consensus_three"
    /\ call = 1
    /\ cons12' = consensus
    /\ Enter(consensus, seq3,
             Append(stdout, <<"Merging consensus of first two with the third transcript...">>))
    /\ UNCHANGED <<entry, seq1, seq2, seq3, result>>

\* Lines 58 and 69: the last merge returns, and its list goes to the caller.
Return ==
    /\ pc = "loop"
    /\ idx = Columns
    /\ entry = "consensus_two" \/ call = 2
    /\ result' = consensus
    /\ pc' = "done"
    /\ UNCHANGED <<entry, seq1, seq2, seq3, call, arg1, arg2, aligned1, aligned2, idx,
                   consensus, cols, branch, stdout, base, cons12>>

Next == ConsensusTwoCall \/ ConsensusThreeCall \/ Column \/ MergeThird \/ Return

Spec == Init /\ [][Next]_vars

(***************************************************************************)
(* Properties.                                                             *)
(***************************************************************************)

\* A consensus_two call has been entered: its alignment is computed.
Entered == pc # "call"

\* The loop of the running consensus_two call is exhausted: consensus is the
\* list the call returns.
Finished == Entered /\ idx = Columns

DropGaps(s) == SelectSeq(s, LAMBDA t : t # None)

\* The lines the running consensus_two call has printed.
DiagOfCall == SubSeq(stdout, base + 1, Len(stdout))

\* Column c (from 0) of the alignment holds two different tokens.
IsMismatch(c) ==
    /\ aligned1[c + 1] # None
    /\ aligned2[c + 1] # None
    /\ aligned1[c + 1] # aligned2[c + 1]

\* s[i..] is a subsequence of t[j..].
RECURSIVE IsSubseqFrom(_, _, _, _)
IsSubseqFrom(s, t, i, j) ==
    IF i > Len(s) THEN TRUE
    ELSE IF j > Len(t) THEN FALSE
    ELSE IF s[i] = t[j] THEN IsSubseqFrom(s, t, i + 1, j + 1)
    ELSE IsSubseqFrom(s, t, i, j + 1)

IsSubseq(s, t) == IsSubseqFrom(s, t, 1, 1)

\* C1: the two lists align_two returns have the same length, whatever the
\* two token sequences are.
AlignedSameLength == Entered => Len(aligned1) = Len(aligned2)

\* An alignment of sequences of different lengths that has gaps on both sides.
AlignedSameLengthWitness ==
    /\ Entered
    /\ Len(arg1) # Len(arg2)
    /\ Len(aligned1) = Len(aligned2)
    /\ \E c \in 1..Len(aligned1) : aligned1[c] = None
    /\ \E c \in 1..Len(aligned2) : aligned2[c] = None

\* C2: deleting the gap markers from the first list align_two returns gives
\* seq1 exactly, and from the second list seq2 exactly.
AlignedReconstructs ==
    Entered => DropGaps(aligned1) = arg1 /\ DropGaps(aligned2) = arg2

\* An alignment with a gap on each side of sequences that repeat a token.
AlignedReconstructsWitness ==
    /\ Entered
    /\ Len(arg1) >= 3
    /\ Len(arg2) >= 3
    /\ arg1[1] = arg1[3]
    /\ arg2[1] = arg2[2]
    /\ \E c \in 1..Len(aligned1) : aligned1[c] = None
    /\ \E c \in 1..Len(aligned2) : aligned2[c] = None
    /\ DropGaps(aligned1) = arg1
    /\ DropGaps(aligned2) = arg2

\* C3: consensus_two(A, A) returns A, its alignment has no gap and it never
\* takes the mismatch branch (it prints no diagnostic).
IdenticalInputs ==
    (Entered /\ arg1 = arg2) =>
        /\ aligned1 = arg1
        /\ aligned2 = arg2
        /\ branch \in {"", "equal"}
        /\ DiagOfCall = <<>>
        /\ consensus = SubSeq(arg1, 1, idx)
        /\ pc = "done" => result = arg1

\* consensus_two(A, A) has returned, for an A that repeats a token.
IdenticalInputsWitness ==
    /\ pc = "done"
    /\ entry = "consensus_two"
    /\ arg1 = arg2
    /\ Len(arg1) >= 3
    /\ arg1[1] = arg1[3]
    /\ arg1[1] # arg1[2]
    /\ result = arg1

\* C4: consensus_two(A, []) and consensus_two([], A) both return A: the empty
\* side aligns as gaps only and every token of the other side is emitted in
\* order.
EmptySide ==
    Entered =>
        /\ arg2 = <<>> =>
              /\ aligned1 = arg1
              /\ aligned2 = Repeat(None, Len(arg1))
              /\ consensus = SubSeq(arg1, 1, idx)
              /\ pc = "done" => result = arg1
        /\ arg1 = <<>> =>
              /\ aligned2 = arg2
              /\ aligned1 = Repeat(None, Len(arg2))
              /\ consensus = SubSeq(arg2, 1, idx)
              /\ pc = "done" => result = arg2

\* consensus_three([], A, []) has returned: its first merge had the empty list
\* on the left and its second merge on the right.
EmptySideWitness ==
    /\ pc = "done"
    /\ entry = "consensus_three"
    /\ seq1 = <<>>
    /\ seq3 = <<>>
    /\ Len(seq2) = 2
    /\ cons12 = seq2
    /\ arg1 = seq2
    /\ arg2 = <<>>
    /\ result = seq2

\* The diagnostics due for the columns 0 .. n - 1 of the alignment.
RECURSIVE DiagnosticsDue(_)
DiagnosticsDue(n) ==
    IF n = 0 THEN <<>>
    ELSE DiagnosticsDue(n - 1)
         \o (IF IsMismatch(n - 1)
             THEN <<<<"mismatch", n - 1, aligned1[n], aligned2[n], aligned1[n]>>>>
             ELSE <<>>)

\* C5: a column with two different tokens emits the token of seq1, prints
\* exactly one diagnostic with the column index and both tokens, and the merge
\* goes on to the last column; the other columns print nothing. In particular
\* consensus_two(["x"], ["y"]) = ["x"] with one diagnostic.
MismatchPolicy ==
    Entered =>
        /\ DiagOfCall = DiagnosticsDue(idx)
        /\ \A c \in 0..(idx - 1) : IsMismatch(c) =>
              \E k \in 1..Len(consensus) : cols[k] = c /\ consensus[k] = aligned1[c + 1]
        /\ pc = "done" => idx = Len(aligned1) /\ result = consensus
        /\ (Finished /\ arg1 = <<"x">> /\ arg2 = <<"y">>) =>
              consensus = <<"x">> /\ DiagOfCall = <<<<"mismatch", 0, "x", "y", "x">>>>

\* A call has returned that met two mismatches, with another column between
\* them.
MismatchPolicyWitness ==
    /\ pc = "done"
    /\ Len(DiagOfCall) = 2
    /\ DiagOfCall[1][2] + 1 < DiagOfCall[2][2]
    /\ result[DiagOfCall[1][2] + 1] = DiagOfCall[1][3]
    /\ result[DiagOfCall[2][2] + 1] = DiagOfCall[2][3]

\* C6: consensus_three(seq1, seq2, seq3) is
\* consensus_two(consensus_two(seq1, seq2), seq3): the merge of the first two
\* is the left argument of the second merge.
FoldsLeft ==
    /\ (entry = "consensus_three" /\ call = 2) =>
          /\ arg1 = cons12
          /\ arg2 = seq3
    /\ (entry = "consensus_three" /\ pc = "done") =>
          /\ cons12 = ConsensusTwo(seq1, seq2)
          /\ result = ConsensusTwo(ConsensusTwo(seq1, seq2), seq3)

\* consensus_three has returned on inputs for which the other orders of the
\* fold give other lists.
FoldsLeftWitness ==
    /\ entry = "consensus_three"
    /\ pc = "done"
    /\ result = ConsensusTwo(ConsensusTwo(seq1, seq2), seq3)
    /\ result # ConsensusTwo(seq3, ConsensusTwo(seq1, seq2))
    /\ result # ConsensusTwo(seq1, ConsensusTwo(seq2, seq3))

\* C7: consensus_three(["the","cat","sat"], ["the","cat","sit"],
\* ["a","cat","sat"]) returns ["the","cat","sat"].
ScenarioResult ==
    (entry = "consensus_three" /\ <<seq1, seq2, seq3>> = Scenario /\ pc = "done") =>
        result = <<"the", "cat", "sat">>

\* The scenario has run to its end, with one mismatch in each merge.
ScenarioResultWitness ==
    /\ entry = "consensus_three"
    /\ <<seq1, seq2, seq3>> = Scenario
    /\ pc = "done"
    /\ result = <<"the", "cat", "sat">>
    /\ Len(stdout) = 4

\* The number of tokens among the first n entries of an aligned list: the
\* 1-based position in the input of the token at entry n.
Pos(al, n) == Len(DropGaps(SubSeq(al, 1, n)))

\* The token of consensus at k was taken from seq1 (else from seq2).
FromSeq1(k) == aligned1[cols[k] + 1] # None

\* C8: the list consensus_two returns holds no gap marker, is no longer than
\* the alignment, and keeps relative order: tokens taken from seq1 are in
\* seq1's order, tokens taken from seq2 in seq2's order, and the token of a
\* column precedes the token of every later column.
ConsensusOrdered ==
    Entered =>
        /\ \A k \in 1..Len(consensus) : consensus[k] # None
        /\ Len(consensus) <= Len(aligned1)
        /\ Len(consensus) <= Len(aligned2)
        /\ Len(cols) = Len(consensus)
        /\ \A k \in 1..Len(consensus) :
              /\ cols[k] < idx
              /\ IF FromSeq1(k)
                 THEN consensus[k] = arg1[Pos(aligned1, cols[k] + 1)]
                 ELSE consensus[k] = arg2[Pos(aligned2, cols[k] + 1)]
        /\ \A k, l \in 1..Len(consensus) : k < l =>
              /\ cols[k] < cols[l]
              /\ (FromSeq1(k) /\ FromSeq1(l)) =>
                    Pos(aligned1, cols[k] + 1) < Pos(aligned1, cols[l] + 1)
              /\ (~FromSeq1(k) /\ ~FromSeq1(l)) =>
                    Pos(aligned2, cols[k] + 1) < Pos(aligned2, cols[l] + 1)
        /\ pc = "done" => result = consensus

\* A merge has returned a list that interleaves tokens of seq2 with tokens of
\* seq1: one from seq2, then one from seq1, then one from seq2.
ConsensusOrderedWitness ==
    /\ pc = "done"
    /\ Len(result) >= 3
    /\ \E k, l, m \in 1..Len(consensus) :
          k < l /\ l < m /\ ~FromSeq1(k) /\ FromSeq1(l) /\ ~FromSeq1(m)

\* C9: no column of the alignment holds a gap on both sides, so the both-gaps
\* branch is never taken and the consensus has one token per column: its
\* length is the alignment's, at least max(len(seq1), len(seq2)).
NoBothGaps ==
    Entered =>
        /\ \A c \in 1..Len(aligned1) : c <= Len(aligned2) =>
              ~(aligned1[c] = None /\ aligned2[c] = None)
        /\ branch # "both_gaps"
        /\ Len(consensus) = idx
        /\ Finished =>
              /\ Len(consensus) = Len(aligned1)
              /\ Len(consensus) >= Max(Len(arg1), Len(arg2))

\* A merge has returned whose alignment has a replace block padded on the
\* seq1 side: a mismatch column directly followed by a gap in aligned1.
NoBothGapsWitness ==
    /\ pc = "done"
    /\ entry = "consensus_two"
    /\ Len(result) > Max(Len(arg1), Len(arg2))
    /\ \E c \in 0..(Columns - 2) : IsMismatch(c) /\ aligned1[c + 2] = None

\* C10: seq1 is a subsequence of consensus_two(seq1, seq2) and so of
\* consensus_three(seq1, seq2, seq3); a token on which seq2 and seq3 agree
\* does not replace a different token of seq1:
\* consensus_three(["x"], ["y"], ["y"]) = ["x"].
FirstSurvives ==
    /\ Finished => IsSubseq(arg1, consensus)
    /\ (entry = "consensus_three" /\ pc = "done") => IsSubseq(seq1, result)
    /\ (entry = "consensus_three" /\ pc = "done"
            /\ seq1 = <<"x">> /\ seq2 = <<"y">> /\ seq3 = <<"y">>) =>
          result = <<"x">>

\* consensus_three(["x"], ["y"], ["y"]) has returned ["x"], after a mismatch
\* in each of its merges.
FirstSurvivesWitness ==
    /\ entry = "consensus_three"
    /\ pc = "done"
    /\ seq1 = <<"x">>
    /\ seq2 = <<"y">>
    /\ seq3 = <<"y">>
    /\ result = <<"x">>
    /\ Len(stdout) = 4

====
